---- MODULE Spec2Model ----
(***************************************************************************)
(* A model of scrape.py: the listing filter (get_submissions), the         *)
(* submission cache (save/load_submissions_urls), the archive population   *)
(* loop of main with download_image, and the audit sweep (perform_audit).  *)
(*                                                                         *)
(* A Python str is modelled as a sequence of one-character strings, so     *)
(* that lower(), `in`, endswith, startswith, split and path joining are    *)
(* computed character by character as the code computes them.             *)
(***************************************************************************)
EXTENDS Integers, Sequences, FiniteSets, TLC

\* ------------------------------------------------------------ bounds

\* The longest upstream listing the account serves.
MaxListing == 2

\* ------------------------------------------------------------ strings

Slash == <<"/">>
Dot == <<".">>

\* The lower-case letter of each upper-case letter
UpperToLower ==
    [A |-> "a", B |-> "b", C |-> "c", D |-> "d", E |-> "e", F |-> "f", G |-> "g",
     H |-> "h", I |-> "i", J |-> "j", K |-> "k", L |-> "l", M |-> "m", N |-> "n",
     O |-> "o", P |-> "p", Q |-> "q", R |-> "r", S |-> "s", T |-> "t", U |-> "u",
     V |-> "v", W |-> "w", X |-> "x", Y |-> "y", Z |-> "z"]

\* str.lower() of one character
LowerChar(c) == IF c \in DOMAIN UpperToLower THEN UpperToLower[c] ELSE c

\* str.lower() of the first n characters of s
RECURSIVE LowerPrefix(_, _)
LowerPrefix(s, n) ==
    IF n = 0 THEN <<>> ELSE Append(LowerPrefix(s, n - 1), LowerChar(s[n]))

\* str.lower()
Lower(s) == LowerPrefix(s, Len(s))

\* str.startswith(prefix)
StartsWith(s, prefix) ==
    /\ Len(prefix) <= Len(s)
    /\ SubSeq(s, 1, Len(prefix)) = prefix

\* str.endswith(suffix)
EndsWith(s, suffix) ==
    /\ Len(suffix) <= Len(s)
    /\ SubSeq(s, Len(s) - Len(suffix) + 1, Len(s)) = suffix

\* needle in s
Contains(s, needle) ==
    \E n \in 1..(Len(s) - Len(needle) + 1) :
        SubSeq(s, n, n + Len(needle) - 1) = needle

\* The position of the last occurrence of the character c in s[1..n], 0 when
\* absent (str.rfind, counted from 1)
RECURSIVE LastIndexFrom(_, _, _)
LastIndexFrom(s, c, n) ==
    IF n = 0 THEN 0
    ELSE IF s[n] = c THEN n
    ELSE LastIndexFrom(s, c, n - 1)

LastIndexOf(s, c) == LastIndexFrom(s, c, Len(s))

\* s.split(".")[-1]: the text after the last dot, all of s when it has none
SplitLast(s) == SubSeq(s, LastIndexOf(s, ".") + 1, Len(s))

\* os.path.join(a, b) for a relative b
PathJoin(a, b) == a \o Slash \o b

\* os.path.dirname(p)
Dirname(p) == SubSeq(p, 1, LastIndexOf(p, "/") - 1)

\* ------------------------------------------------------------ configuration

reddit_username == <<"a","n","i","m","e","t","o","d","a","y">>
data_dir == <<"d","a","t","a">>
submissions_urls_file ==
    PathJoin(data_dir, <<"s","u","b","m","i","s","s","i","o","n","s","_",
                         "u","r","l","s",".","j","s","o","n">>)

\* Optional[str]: None, or a str
None == <<"None">>
Str(s) == <<"str", s>>

\* JSON values of the first_comment key
JsonNull == <<"null">>
JsonString(s) == <<"string", s>>

\* ------------------------------------------------------------ calendar

\* calendar.month_name without its empty first entry
month_name ==
    << <<"J","a","n","u","a","r","y">>,
       <<"F","e","b","r","u","a","r","y">>,
       <<"M","a","r","c","h">>,
       <<"A","p","r","i","l">>,
       <<"M","a","y">>,
       <<"J","u","n","e">>,
       <<"J","u","l","y">>,
       <<"A","u","g","u","s","t">>,
       <<"S","e","p","t","e","m","b","e","r">>,
       <<"O","c","t","o","b","e","r">>,
       <<"N","o","v","e","m","b","e","r">>,
       <<"D","e","c","e","m","b","e","r">> >>

\* calendar.day_name
day_name ==
    << <<"M","o","n","d","a","y">>,
       <<"T","u","e","s","d","a","y">>,
       <<"W","e","d","n","e","s","d","a","y">>,
       <<"T","h","u","r","s","d","a","y">>,
       <<"F","r","i","d","a","y">>,
       <<"S","a","t","u","r","d","a","y">>,
       <<"S","u","n","d","a","y">> >>

\* [name.lower() for name in names], for the first n names
RECURSIVE LowerAll(_, _)
LowerAll(names, n) ==
    IF n = 0 THEN <<>> ELSE Append(LowerAll(names, n - 1), Lower(names[n]))

\* month_names, day_names of get_submissions: the names lowercased
month_names == LowerAll(month_name, 12)
day_names == LowerAll(day_name, 7)

\* The UTC day number (days since 1970-01-01) of a timestamp
EpochDay(created_utc) == created_utc \div 86400

\* datetime.datetime.utcfromtimestamp(created_utc): the proleptic Gregorian
\* date of the timestamp's UTC day, as [year, month, day]
utcfromtimestamp(created_utc) ==
    LET z == EpochDay(created_utc) + 719468
        era == z \div 146097
        doe == z - era * 146097
        yoe == (doe - doe \div 1460 + doe \div 36524 - doe \div 146096) \div 365
        doy == doe - (365 * yoe + yoe \div 4 - yoe \div 100)
        mp == (5 * doy + 2) \div 153
        d == doy - (153 * mp + 2) \div 5 + 1
        m == IF mp < 10 THEN mp + 3 ELSE mp - 9
        y == yoe + era * 400 + (IF m <= 2 THEN 1 ELSE 0)
    IN  [year |-> y, month |-> m, day |-> d]

Digits == <<"0","1","2","3","4","5","6","7","8","9">>

\* A number below 100 formatted as strftime's %m and %d format it: two digits
TwoDigits(n) == <<Digits[(n \div 10) + 1], Digits[(n % 10) + 1]>>

\* submission_date.strftime("%m_%B")
StrftimeMonth(date) == TwoDigits(date.month) \o <<"_">> \o month_name[date.month]

\* StrftimeDay with the month's directive in the day's place ("%m" for "%d")
StrftimeDay_MonthDirective(date) == TwoDigits(date.month)

\* submission_date.strftime("%d")
StrftimeDay(date) == TwoDigits(date.day)

\* ------------------------------------------------------------ inputs

\* The submissions the account may serve, newest first. Between them they
\* pass and fail the title test and the image test, and fall on the same
\* day, on the next day, in another month and on the same month and day of
\* the next year.
AccountSubmissions ==
    << [title |-> <<"N","o","v","e","m","b","e","r"," ","1","4">>,
        id |-> <<"a","b","c","1","2","3">>,
        permalink |-> <<"/","a","b","c","1","2","3">>,
        url |-> <<"h","t","t","p","s",":","/","/","i",".","r","e","d","d",".","i","t","/","p","i","c",".","j","p","g">>,
        created_utc |-> 1700000000],
       [title |-> <<"I","t","'","s"," ","F","R","I","D","A","Y">>,
        id |-> <<"b","2">>,
        permalink |-> <<"/","b","2">>,
        url |-> <<"h","t","t","p","s",":","/","/","i",".","r","e","d","d",".","i","t","/","b",".","p","n","g">>,
        created_utc |-> 1699920000],
       [title |-> <<"T","o","d","a","y">>,
        id |-> <<"c","3">>,
        permalink |-> <<"/","c","3">>,
        url |-> <<"h","t","t","p","s",":","/","/","i",".","r","e","d","d",".","i","t","/","c","j","p","g">>,
        created_utc |-> 1700006400],
       [title |-> <<"N","o","v"," ","1","4">>,
        id |-> <<"d","4">>,
        permalink |-> <<"/","d","4">>,
        url |-> <<"h","t","t","p","s",":","/","/","i",".","r","e","d","d",".","i","t","/","d",".","g","i","f">>,
        created_utc |-> 1709164800],
       [title |-> <<"t","o","d","a","y">>,
        id |-> <<"e","5">>,
        permalink |-> <<"/","e","5">>,
        url |-> <<"h","t","t","p","s",":","/","/","v",".","r","e","d","d",".","i","t","/","e">>,
        created_utc |-> 1700006400],
       [title |-> <<"m","a","y","h","e","m">>,
        id |-> <<"f","6">>,
        permalink |-> <<"/","f","6">>,
        url |-> <<"h","t","t","p","s",":","/","/","i",".","r","e","d","d",".","i","t","/","f",".","j","p","e","g">>,
        created_utc |-> 1731622400] >>

\* A cache file as an earlier save would have left it (or as the operator
\* placed it): three records, one with null, one with a comment, one with "".
CachedDocument ==
    << [title |-> <<"T","h","u","r","s","d","a","y">>,
        id |-> <<"g","7">>,
        permalink |-> <<"h","t","t","p","s",":","/","/","w","w","w",".","r","e","d","d","i","t",".","c","o","m","/","g","7">>,
        media_url |-> <<"h","t","t","p","s",":","/","/","i",".","r","e","d","d",".","i","t","/","g",".","p","n","g">>,
        created_utc |-> 1731622400,
        first_comment |-> JsonNull],
       [title |-> <<"N","o","v","e","m","b","e","r"," ","1","4">>,
        id |-> <<"a","b","c","1","2","3">>,
        permalink |-> <<"h","t","t","p","s",":","/","/","w","w","w",".","r","e","d","d","i","t",".","c","o","m","/","a","b","c","1","2","3">>,
        media_url |-> <<"h","t","t","p","s",":","/","/","i",".","r","e","d","d",".","i","t","/","p","i","c",".","j","p","g">>,
        created_utc |-> 1700000000,
        first_comment |-> JsonString(<<"{","\"","s","o","u","r","c","e","\"",":","\"","x","\"","}">>)],
       [title |-> <<"T","o","d","a","y">>,
        id |-> <<"h","8">>,
        permalink |-> <<"h","t","t","p","s",":","/","/","w","w","w",".","r","e","d","d","i","t",".","c","o","m","/","h","8">>,
        media_url |-> <<"h","t","t","p","s",":","/","/","i",".","r","e","d","d",".","i","t","/","h",".","g","i","f">>,
        created_utc |-> 1700006400,
        first_comment |-> JsonString(<<>>)] >>

\* What the request for one image yields: a network failure, or the bytes the
\* URL serves
Responses(media_url) == { <<"error">>, <<"ok", <<"bytes of", media_url>>>> }

\* The comment trees a submission may carry
CommentTrees ==
    { <<>>,
      << [author |-> reddit_username, body |-> <<"{","b","}">>] >>,
      << [author |-> <<"s","o","m","e","o","n","e">>, body |-> <<"{","b","}">>],
         [author |-> reddit_username, body |-> <<"h","i">>],
         [author |-> reddit_username, body |-> <<"{","\"","s","o","u","r","c","e","\"",":","\"","x","\"","}">>],
         [author |-> reddit_username, body |-> <<"{","b","}">>] >> }

\* What one comment lookup meets: a comment tree, and whether and where the
\* upstream raises (raise_at = 0: in submission.load(); raise_at = n: after
\* the n-th comment has been yielded)
Lookups ==
    UNION { { [comments |-> t, raises |-> FALSE, raise_at |-> 0] }
            \cup { [comments |-> t, raises |-> TRUE, raise_at |-> n] :
                     n \in 0..Len(t) } : t \in CommentTrees }

\* ------------------------------------------------------------ file system

\* A file system is [dirs: the paths that are directories, files: a function
\* from the paths that are regular files to their contents]. The cache file
\* is kept apart, in the variable cache.

\* The path and its ancestors, as os.makedirs creates them
RECURSIVE Ancestors(_)
Ancestors(p) ==
    IF Dirname(p) = <<>> THEN {p} ELSE {p} \cup Ancestors(Dirname(p))

\* os.makedirs(p)
Makedirs(f, p) == [f EXCEPT !.dirs = @ \cup Ancestors(p)]

\* os.path.exists(p), for a path other than the cache file
Exists(f, p) == p \in f.dirs \/ p \in DOMAIN f.files

\* os.path.isdir(p)
IsDir(f, p) == p \in f.dirs

\* The entries of directory d (os.listdir(d), as paths), the cache file apart
Entries(f, d) == { p \in f.dirs \cup DOMAIN f.files : Dirname(p) = d }

\* open(p, "w") or open(p, "wb") followed by write(content)
WriteFile(f, p, content) ==
    [f EXCEPT !.files = [q \in DOMAIN @ \cup {p} |-> IF q = p THEN content ELSE @[q]]]

\* ------------------------------------------------------------ get_submissions

image_suffixes == { <<"j","p","g">>, <<"j","p","e","g">>, <<"p","n","g">>, <<"g","i","f">> }

\* get_permalink(submission)
get_permalink(submission) ==
    <<"h","t","t","p","s",":","/","/","w","w","w",".","r","e","d","d","i","t",".","c","o","m">>
        \o submission.permalink

\* The title test without title.lower()
TitleHasDateIndicator_CaseSensitive(submission_title) ==
    \/ \E n \in 1..12 : Contains(submission_title, month_names[n])
    \/ \E n \in 1..7 : Contains(submission_title, day_names[n])
    \/ Contains(submission_title, <<"t","o","d","a","y">>)

\* The title test: the lowercased title contains a month name, a day name or
\* "today"
TitleHasDateIndicator(submission_title) ==
    LET title == Lower(submission_title)
    IN  \/ \E n \in 1..12 : Contains(title, month_names[n])
        \/ \E n \in 1..7 : Contains(title, day_names[n])
        \/ Contains(title, <<"t","o","d","a","y">>)

\* The image test: submission.url.endswith(("jpg", "jpeg", "png", "gif"))
UrlIsImage(url) == \E suffix \in image_suffixes : EndsWith(url, suffix)

\* Whether a comment is the account's bracket-delimited annotation
CommentMatches(comment) ==
    /\ comment.author = reddit_username
    /\ StartsWith(comment.body, <<"{">>)
    /\ EndsWith(comment.body, <<"}">>)

\* The try block: submission.load(), then the comments in order up to the
\* first match. [comment: submission_comment afterwards, error: whether the
\* except clause ran], from comment number n on.
RECURSIVE ScanComments(_, _)
ScanComments(lookup, n) ==
    IF lookup.raises /\ lookup.raise_at = n - 1
    THEN [comment |-> None, error |-> TRUE]
    ELSE IF n > Len(lookup.comments)
    THEN [comment |-> None, error |-> FALSE]
    ELSE IF CommentMatches(lookup.comments[n])
    THEN [comment |-> Str(lookup.comments[n].body), error |-> FALSE]
    ELSE ScanComments(lookup, n + 1)

FindComment(lookup) == ScanComments(lookup, 1)

\* DailyAnimePost(...) of a submission that passed both tests
MakePost(submission, submission_comment) ==
    [title |-> submission.title,
     id |-> submission.id,
     permalink |-> get_permalink(submission),
     media_url |-> submission.url,
     created_utc |-> submission.created_utc,
     first_comment |-> submission_comment]

\* ------------------------------------------------------------ the cache

\* json.dump(submissions, f, default=lambda o: o.__dict__): one object per
\* record, None written as null
DumpPost(post) ==
    [post EXCEPT !.first_comment =
        IF @ = None THEN JsonNull ELSE JsonString(@[2])]

save_submissions_urls(submissions) ==
    [n \in 1..Len(submissions) |-> DumpPost(submissions[n])]

\* LoadPost reading every falsy comment, the empty string included, as None
LoadPost_EmptyAsNone(object) ==
    [object EXCEPT !.first_comment =
        IF @ = JsonNull \/ @[2] = <<>> THEN None ELSE Str(@[2])]

\* DailyAnimePost(**s) of a JSON object, null read as None
LoadPost(object) ==
    [object EXCEPT !.first_comment =
        IF @ = JsonNull THEN None ELSE Str(@[2])]

load_submissions_urls(document) ==
    [n \in 1..Len(document) |-> LoadPost(document[n])]

\* ------------------------------------------------------------ download_image

\* download_image without its os.path.exists check
download_image_NoExistsCheck(f, submission, directory, response) ==
    LET extension == SplitLast(submission.media_url)
        image_filename == PathJoin(directory, submission.id) \o Dot \o extension
    IN  IF response[1] = "error"
        THEN [fs |-> f, path |-> image_filename, effect |-> "network_error"]
        ELSE IF ~IsDir(f, Dirname(image_filename))
        THEN [fs |-> f, path |-> image_filename, effect |-> "os_error"]
        ELSE [fs |-> WriteFile(f, image_filename, response[2]),
              path |-> image_filename, effect |-> "fetched"]

\* download_image(submission, directory) on file system f, the request
\* answered by response: the file system afterwards and what the call did
\*   skipped:       the file existed, nothing read, nothing written
\*   network_error: the request raised, nothing written
\*   os_error:      the bytes were read and open() raised, nothing written
\*   fetched:       the bytes were read and written
download_image(f, submission, directory, response) ==
    LET extension == SplitLast(submission.media_url)
        image_filename == PathJoin(directory, submission.id) \o Dot \o extension
    IN  IF Exists(f, image_filename)
        THEN [fs |-> f, path |-> image_filename, effect |-> "skipped"]
        ELSE IF response[1] = "error"
        THEN [fs |-> f, path |-> image_filename, effect |-> "network_error"]
        ELSE IF ~IsDir(f, Dirname(image_filename))
        THEN [fs |-> f, path |-> image_filename, effect |-> "os_error"]
        ELSE [fs |-> WriteFile(f, image_filename, response[2]),
              path |-> image_filename, effect |-> "fetched"]

\* ------------------------------------------------------------ main's loop body

\* os.path.join(data_dir, submission_date.strftime("%m_%B"))
SubmissionMonthDir(created_utc) ==
    PathJoin(data_dir, StrftimeMonth(utcfromtimestamp(created_utc)))

\* os.path.join(submission_month_dir, submission_date.strftime("%d"))
SubmissionDayDir(created_utc) ==
    PathJoin(SubmissionMonthDir(created_utc),
             StrftimeDay(utcfromtimestamp(created_utc)))

\* The two "if not os.path.exists(...): os.makedirs(...)" of the loop body
EnsureDirs(f, created_utc) ==
    LET month_made ==
            IF Exists(f, SubmissionMonthDir(created_utc)) THEN f
            ELSE Makedirs(f, SubmissionMonthDir(created_utc))
    IN  IF Exists(month_made, SubmissionDayDir(created_utc)) THEN month_made
        ELSE Makedirs(month_made, SubmissionDayDir(created_utc))

\* "if submission.first_comment": neither None nor the empty string
HasComment(submission) ==
    /\ submission.first_comment # None
    /\ submission.first_comment[2] # <<>>

\* os.path.join(day_dir, f"{submission.id}.txt")
CommentFilename(day_dir, submission) ==
    PathJoin(day_dir, submission.id \o <<".","t","x","t">>)

\* SaveComment with the existence check download_image has
SaveComment_IfAbsent(f, day_dir, submission) ==
    IF HasComment(submission) /\ ~Exists(f, CommentFilename(day_dir, submission))
    THEN WriteFile(f, CommentFilename(day_dir, submission), submission.first_comment[2])
    ELSE f

\* The comment step: the file system after it
SaveComment(f, day_dir, submission) ==
    IF HasComment(submission)
    THEN WriteFile(f, CommentFilename(day_dir, submission), submission.first_comment[2])
    ELSE f

\* ------------------------------------------------------------ perform_audit

\* EmptyDayDirs with the emptiness test inverted ("if os.listdir(day_dir)")
EmptyDayDirs_Inverted(f) ==
    { day_dir \in UNION { Entries(f, month_dir) :
                            month_dir \in { m \in Entries(f, data_dir) : IsDir(f, m) } } :
        Entries(f, day_dir) # {} }

\* The day directories perform_audit prints as empty
EmptyDayDirs(f) ==
    { day_dir \in UNION { Entries(f, month_dir) :
                            month_dir \in { m \in Entries(f, data_dir) : IsDir(f, m) } } :
        Entries(f, day_dir) = {} }

\* perform_audit(): <<"error">> when a listdir raises (the data root is
\* missing, or an entry of a month directory is no directory), otherwise
\* <<"complete", the directories reported>>
perform_audit(f) ==
    IF ~IsDir(f, data_dir) THEN <<"error">>
    ELSE IF \E month_dir \in Entries(f, data_dir) :
                /\ IsDir(f, month_dir)
                /\ \E day \in Entries(f, month_dir) : ~IsDir(f, day)
    THEN <<"error">>
    ELSE <<"complete", EmptyDayDirs(f)>>

\* ------------------------------------------------------------ state

VARIABLES
    upstream,           \* the account's listing, newest first
    cache,              \* the cache file: <<"absent">> or <<"file", document>>
    fs,                 \* the file system below the working directory
    before,             \* the file system as the current run found it
    pc,                 \* where the run is: idle, listing, archive, done, failed
    cache_exists,       \* main's cache_exists
    fetched,            \* whether this run called get_submissions
    k,                  \* get_submissions: the submissions consumed so far
    posts,              \* get_submissions: posts
    notices,            \* get_submissions: what it printed, as <<kind, id>>
    daily_submissions,  \* main's daily_submissions
    i,                  \* main's loop: the records completed so far
    processed,          \* main's loop: what each iteration of this run did
    audit               \* the last perform_audit since the last run started

vars == <<upstream, cache, fs, before, pc, cache_exists, fetched, k, posts, notices,
          daily_submissions, i, processed, audit>>

\* The submissions numbered in S from n on, in the account's order
RECURSIVE Pick(_, _)
Pick(S, n) ==
    IF n > Len(AccountSubmissions) THEN <<>>
    ELSE IF n \in S THEN <<AccountSubmissions[n]>> \o Pick(S, n + 1)
    ELSE Pick(S, n + 1)

\* The listings the account may serve: at most MaxListing of its submissions
Listings ==
    { Pick(S, 1) : S \in { T \in SUBSET (1..Len(AccountSubmissions)) :
                             Cardinality(T) <= MaxListing } }

NoFiles == [p \in {} |-> <<>>]

Init ==
    /\ upstream \in Listings
    /\ cache \in { <<"absent">>, <<"file", CachedDocument>> }
    /\ fs = [dirs |-> IF cache[1] = "file" THEN {data_dir} ELSE {},
             files |-> NoFiles]
    /\ before = fs
    /\ pc = "idle"
    /\ cache_exists = FALSE
    /\ fetched = FALSE
    /\ k = 0
    /\ posts = <<>>
    /\ notices = <<>>
    /\ daily_submissions = <<>>
    /\ i = 0
    /\ processed = <<>>
    /\ audit = <<"not_run">>

\* ------------------------------------------------------------ main

\* main up to its loop: the data root is made, and the cache is loaded when
\* it exists; otherwise get_submissions is entered.
StartRun ==
    /\ pc \in {"idle", "done", "failed"}
    /\ fs' = IF Exists(fs, data_dir) THEN fs ELSE Makedirs(fs, data_dir)
    /\ before' = fs
    /\ cache_exists' = (cache[1] = "file")
    /\ IF cache[1] = "file"
       THEN /\ daily_submissions' = load_submissions_urls(cache[2])
            /\ fetched' = FALSE
            /\ pc' = "archive"
       ELSE /\ daily_submissions' = <<>>
            /\ fetched' = TRUE
            /\ pc' = "listing"
    /\ k' = 0
    /\ posts' = <<>>
    /\ notices' = <<>>
    /\ i' = 0
    /\ processed' = <<>>
    /\ audit' = <<"not_run">>
    /\ UNCHANGED <<upstream, cache>>

\* AppendPost with a `continue` in the except clause: no post after a failed
\* lookup
AppendPost_UnlessError(list, submission, found) ==
    IF found.error THEN list ELSE Append(list, MakePost(submission, found.comment))

\* posts.append(p), after a comment lookup that found `found`
AppendPost(list, submission, found) ==
    Append(list, MakePost(submission, found.comment))

\* What the lookup of one submission prints
LookupNotices(submission, found) ==
    <<<<"checking", submission.id>>>>
        \o (IF found.error THEN <<<<"comment_error", submission.id>>>> ELSE <<>>)

\* One iteration of get_submissions' loop, the comment lookup meeting any of
\* Lookups.
ListingStep ==
    /\ pc = "listing"
    /\ k < Len(upstream)
    /\ LET submission == upstream[k + 1]
       IN  IF ~TitleHasDateIndicator(submission.title)
           THEN /\ notices' = Append(notices, <<"skip_title", submission.id>>)
                /\ posts' = posts
           ELSE IF ~UrlIsImage(submission.url)
           THEN /\ notices' = Append(notices, <<"skip_image", submission.id>>)
                /\ posts' = posts
           ELSE \E lookup \in Lookups :
                    /\ notices' = notices \o LookupNotices(submission, FindComment(lookup))
                    /\ posts' = AppendPost(posts, submission, FindComment(lookup))
    /\ k' = k + 1
    /\ UNCHANGED <<upstream, cache, fs, before, pc, cache_exists, fetched,
                   daily_submissions, i, processed, audit>>

\* get_submissions returns posts, which main takes as daily_submissions.
ListingReturn ==
    /\ pc = "listing"
    /\ k = Len(upstream)
    /\ daily_submissions' = posts
    /\ pc' = "archive"
    /\ UNCHANGED <<upstream, cache, fs, before, cache_exists, fetched, k,
                   posts, notices, i, processed, audit>>

\* ProcessSubmission with the download in a try block that logs and goes on
ProcessSubmission_CatchesDownloadError(f, submission, response) ==
    LET day_dir == SubmissionDayDir(submission.created_utc)
        made == EnsureDirs(f, submission.created_utc)
        download == download_image(made, submission, day_dir, response)
    IN  [fs |-> SaveComment(download.fs, day_dir, submission),
         entry |-> [id |-> submission.id,
                    day_dir |-> day_dir,
                    image |-> download.path,
                    download |-> download.effect,
                    comment_written |-> HasComment(submission)],
         raised |-> FALSE]

\* One iteration of main's loop on file system f, the image request answered
\* by response: the file system afterwards, the record of what was done, and
\* whether an exception left the loop.
ProcessSubmission(f, submission, response) ==
    LET day_dir == SubmissionDayDir(submission.created_utc)
        made == EnsureDirs(f, submission.created_utc)
        download == download_image(made, submission, day_dir, response)
        raised == download.effect \in {"network_error", "os_error"}
    IN  [fs |-> IF raised THEN download.fs
                ELSE SaveComment(download.fs, day_dir, submission),
         entry |-> [id |-> submission.id,
                    day_dir |-> day_dir,
                    image |-> download.path,
                    download |-> download.effect,
                    comment_written |-> ~raised /\ HasComment(submission)],
         raised |-> raised]

ArchiveStep ==
    /\ pc = "archive"
    /\ i < Len(daily_submissions)
    /\ \E response \in Responses(daily_submissions[i + 1].media_url) :
        LET done == ProcessSubmission(fs, daily_submissions[i + 1], response)
        IN  /\ fs' = done.fs
            /\ processed' = Append(processed, done.entry)
            /\ i' = IF done.raised THEN i ELSE i + 1
            /\ pc' = IF done.raised THEN "failed" ELSE "archive"
    /\ UNCHANGED <<upstream, cache, before, cache_exists, fetched, k, posts,
                   notices, daily_submissions, audit>>

\* main returns after the last record.
MainReturn ==
    /\ pc = "archive"
    /\ i = Len(daily_submissions)
    /\ pc' = "done"
    /\ UNCHANGED <<upstream, cache, fs, before, cache_exists, fetched, k,
                   posts, notices, daily_submissions, i, processed, audit>>

\* perform_audit, run on its own between runs of main.
Audit ==
    /\ pc \in {"idle", "done", "failed"}
    /\ audit' = perform_audit(fs)
    /\ UNCHANGED <<upstream, cache, fs, before, pc, cache_exists, fetched, k,
                   posts, notices, daily_submissions, i, processed>>

Next ==
    \/ StartRun
    \/ ListingStep
    \/ ListingReturn
    \/ ArchiveStep
    \/ MainReturn
    \/ Audit

Spec == Init /\ [][Next]_vars

\* ------------------------------------------------------------ claims

Range(seq) == { seq[n] : n \in 1..Len(seq) }

\* The ids of a sequence of submissions or records, in order
Ids(seq) == [n \in 1..Len(seq) |-> seq[n].id]

\* Whether the run has left get_submissions (the listing was served to its end)
ListingOver == pc \in {"archive", "done", "failed"}

\* ---- C1

\* C1: when main starts with no cache file and completes, the record list
\* get_submissions produced has been saved to the cache file, so that the next
\* run finds the cache. (The code never calls save_submissions_urls: TLC finds
\* this violated.)
C1_CacheSavedAfterFetch ==
    (pc = "done" /\ ~cache_exists /\ posts # <<>>)
        => cache = <<"file", save_submissions_urls(posts)>>

\* ---- C2

\* The record a JSON object of the cache stands for, written out field by field
RecordOf(object, record) ==
    /\ record.title = object.title
    /\ record.id = object.id
    /\ record.permalink = object.permalink
    /\ record.media_url = object.media_url
    /\ record.created_utc = object.created_utc
    /\ object.first_comment[1] = "null" => record.first_comment = <<"None">>
    /\ object.first_comment[1] = "string" =>
           record.first_comment = <<"str", object.first_comment[2]>>

\* C2: when main starts and the cache file exists, get_submissions is never
\* invoked during that run, the records processed are exactly the records of
\* the cache, in cache order, whatever the upstream listing contains, and the
\* cache file is left as it was.
C2_CacheIsSoleSource ==
    (cache_exists /\ pc \in {"archive", "done", "failed"}) =>
        /\ ~fetched
        /\ posts = <<>>
        /\ notices = <<>>
        /\ cache = <<"file", CachedDocument>>
        /\ Len(daily_submissions) = Len(CachedDocument)
        /\ \A n \in 1..Len(CachedDocument) :
               RecordOf(CachedDocument[n], daily_submissions[n])
        /\ Len(processed) <= Len(CachedDocument)
        /\ \A n \in 1..Len(processed) : processed[n].id = CachedDocument[n].id
        /\ pc = "done" => Len(processed) = Len(CachedDocument)

\* C2's case: a run on the cache has processed all of its records, among them
\* the one with the empty comment, while the upstream serves something else.
C2_Witness ==
    /\ cache_exists
    /\ pc = "done"
    /\ Len(processed) = Len(CachedDocument)
    /\ \E n \in 1..Len(daily_submissions) : daily_submissions[n].first_comment = <<"str", <<>>>>
    /\ upstream # <<>>

\* ---- C3

\* The timestamp of the n-th record this run has processed
CreatedUtc(n) == daily_submissions[n].created_utc

\* C3 as stated: the day directories of two records are identical when both
\* timestamps fall on the same UTC calendar day and different whenever they
\* fall on different calendar days, different years included. (TLC finds this
\* violated: the path carries no year.)
C3_DayDirPerCalendarDay ==
    \A a, b \in 1..Len(processed) :
        (processed[a].day_dir = processed[b].day_dir)
            <=> (EpochDay(CreatedUtc(a)) = EpochDay(CreatedUtc(b)))

\* C3 as amended: the day directories of two records are identical when both
\* timestamps fall on the same UTC calendar day, and they differ exactly when
\* the two timestamps differ in month or in day of the month; the same month
\* and day in different years share one directory.
C3_DayDirPerMonthAndDay ==
    \A a, b \in 1..Len(processed) :
        /\ EpochDay(CreatedUtc(a)) = EpochDay(CreatedUtc(b))
               => processed[a].day_dir = processed[b].day_dir
        /\ (processed[a].day_dir = processed[b].day_dir)
               <=> /\ utcfromtimestamp(CreatedUtc(a)).month = utcfromtimestamp(CreatedUtc(b)).month
                   /\ utcfromtimestamp(CreatedUtc(a)).day = utcfromtimestamp(CreatedUtc(b)).day

\* C3's case: one run has resolved the same directory for two records a year
\* apart, and another directory for a record of the next day.
C3_Witness ==
    \E a, b, c \in 1..Len(processed) :
        /\ utcfromtimestamp(CreatedUtc(a)).year # utcfromtimestamp(CreatedUtc(b)).year
        /\ processed[a].day_dir = processed[b].day_dir
        /\ EpochDay(CreatedUtc(c)) = EpochDay(CreatedUtc(a)) + 1
        /\ processed[c].day_dir # processed[a].day_dir

\* ---- C4

\* The month names, the day names and "today", in lower case
DateWords ==
    { <<"j","a","n","u","a","r","y">>,
      <<"f","e","b","r","u","a","r","y">>,
      <<"m","a","r","c","h">>,
      <<"a","p","r","i","l">>,
      <<"m","a","y">>,
      <<"j","u","n","e">>,
      <<"j","u","l","y">>,
      <<"a","u","g","u","s","t">>,
      <<"s","e","p","t","e","m","b","e","r">>,
      <<"o","c","t","o","b","e","r">>,
      <<"n","o","v","e","m","b","e","r">>,
      <<"d","e","c","e","m","b","e","r">>,
      <<"m","o","n","d","a","y">>,
      <<"t","u","e","s","d","a","y">>,
      <<"w","e","d","n","e","s","d","a","y">>,
      <<"t","h","u","r","s","d","a","y">>,
      <<"f","r","i","d","a","y">>,
      <<"s","a","t","u","r","d","a","y">>,
      <<"s","u","n","d","a","y">>,
      <<"t","o","d","a","y">> }

\* Whether the title, letter case set aside, contains one of DateWords
TitleNamesADate(title) ==
    \E word \in DateWords :
        \E at \in 0..(Len(title) - Len(word)) :
            \A n \in 1..Len(word) : LowerChar(title[at + n]) = word[n]

\* C4: of the upstream posts whose media URL passes the image test,
\* get_submissions includes exactly those whose title, lowercased, contains a
\* month name, a day name or "today"; a post excluded for its title causes a
\* skip notice and no error, and the listing goes on to its end.
C4_TitleFilter ==
    fetched =>
        /\ \A n \in 1..k :
               /\ UrlIsImage(upstream[n].url) =>
                      ((upstream[n].id \in Range(Ids(posts)))
                           <=> TitleNamesADate(upstream[n].title))
               /\ ~TitleNamesADate(upstream[n].title) =>
                      /\ <<"skip_title", upstream[n].id>> \in Range(notices)
                      /\ upstream[n].id \notin Range(Ids(posts))
        /\ ListingOver => k = Len(upstream)

\* C4's case: the listing is over, one of its posts was excluded for its
\* title and another, whose title has capitals, was included after a post
\* had been skipped.
C4_Witness ==
    /\ fetched
    /\ ListingOver
    /\ \E a, b \in 1..Len(upstream) :
           /\ <<"skip_title", upstream[a].id>> \in Range(notices)
           /\ UrlIsImage(upstream[a].url)
           /\ upstream[b].id \in Range(Ids(posts))
           /\ Lower(upstream[b].title) # upstream[b].title

\* ---- C5

\* C5: every record get_submissions includes has a media URL whose extension,
\* the text after the last dot that download_image uses for the filename, is
\* one of jpg, jpeg, png, gif. (The code tests the URL's last characters, with
\* no dot: TLC finds this violated.)
C5_IncludedExtensionIsImage ==
    \A n \in 1..Len(posts) : SplitLast(posts[n].media_url) \in image_suffixes

\* ---- C6

\* Whether the step is an iteration of main's loop: it adds one entry to
\* processed
Processes == Len(processed') = Len(processed) + 1

\* The record the step processes and the entry it adds. (Each is used only in a
\* step that processes: the n-th entry of a run is about its n-th record.)
Record == daily_submissions[Len(processed) + 1]
Entry == processed'[Len(processed) + 1]

\* What download_image does in one step: an image on disk stays as it is; a
\* call that finds its destination present reads nothing from the network and
\* returns; a call that finds it absent and returns has read the URL's bytes
\* once and written them there.
C6_Step ==
    /\ \A p \in DOMAIN fs.files :
           fs.files[p][1] = "bytes of" =>
               p \in DOMAIN fs'.files /\ fs'.files[p] = fs.files[p]
    /\ Processes =>
           /\ Entry.download \in {"skipped", "fetched", "network_error", "os_error"}
           /\ Entry.image \in DOMAIN fs.files <=> Entry.download = "skipped"
           /\ Entry.download = "fetched" =>
                  /\ Entry.image \in DOMAIN fs'.files
                  /\ fs'.files[Entry.image] = <<"bytes of", Record.media_url>>

\* C6: of two invocations of download_image in sequence with the same record
\* and directory, the first performs the one network read and the one file
\* write; the second finds {directory}/{id}.{extension} present and returns
\* with no network access and the file unchanged, also when the second is a
\* later run of main.
C6_DownloadOnce == [][C6_Step]_vars

\* C6's case: a run has skipped the download of a record whose image an earlier
\* run fetched, and has fetched another itself.
C6_Witness ==
    \E a, b \in 1..Len(processed) :
        /\ processed[a].download = "skipped"
        /\ processed[a].image \in DOMAIN before.files
        /\ processed[b].download = "fetched"
        /\ processed[b].image \notin DOMAIN before.files

\* ---- C7

\* The day directories: the directories two levels below the data root
DayDirectories == { d \in fs.dirs : Dirname(Dirname(d)) = data_dir }

\* Whether a directory holds no file
HoldsNoFile(d) == ~\E p \in DOMAIN fs.files : Dirname(p) = d

RECURSIVE Passing(_)
Passing(n) ==
    IF n = 0 THEN <<>>
    ELSE IF TitleHasDateIndicator(upstream[n].title) /\ UrlIsImage(upstream[n].url)
    THEN Append(Passing(n - 1), upstream[n].id)
    ELSE Passing(n - 1)

\* How often get_submissions printed the notice
Times(notice) == Cardinality({ n \in 1..Len(notices) : notices[n] = notice })

\* C8: a failure while loading a post's comments is never propagated: the post
\* is appended with first_comment absent, the lookup is made once, and the
\* listing goes on, so the output holds every post that passed the title and
\* image tests, whichever lookups failed.
C8_LookupFailureDegrades ==
    fetched =>
        /\ Ids(posts) = Passing(k)
        /\ \A n \in 1..Len(posts) :
               /\ Times(<<"checking", posts[n].id>>) = 1
               /\ Times(<<"comment_error", posts[n].id>>) <= 1
               /\ Times(<<"comment_error", posts[n].id>>) = 1 =>
                      posts[n].first_comment = <<"None">>
        /\ ListingOver => k = Len(upstream)
        /\ ListingOver => Ids(daily_submissions) = Passing(Len(upstream))

\* C8's case: the lookup of the first of two passing posts failed, the second
\* post's found its comment, and both are in the output main took.
C8_Witness ==
    /\ fetched
    /\ ListingOver
    /\ Len(daily_submissions) = 2
    /\ Times(<<"comment_error", daily_submissions[1].id>>) = 1
    /\ daily_submissions[1].first_comment = <<"None">>
    /\ daily_submissions[2].first_comment # <<"None">>

\* ---- C9

\* Whether the n-th iteration of this run completed
Completed(n) == processed[n].download \in {"fetched", "skipped"}

\* Whether the record carries a non-empty first_comment
Commented(record) ==
    /\ record.first_comment[1] = "str"
    /\ Len(record.first_comment[2]) > 0

\* {day_dir}/{id}.txt
TxtPath(day_dir, record) == day_dir \o <<"/">> \o record.id \o <<".","t","x","t">>

\* The text after the last dot of the URL
AfterLastDot(url) ==
    LET dots == { n \in 1..Len(url) : url[n] = "." }
    IN  IF dots = {} THEN url
        ELSE SubSeq(url, (CHOOSE n \in dots : \A m \in dots : m <= n) + 1, Len(url))

\* The record of the end-to-end scenario
IsScenario(record) ==
    /\ record.created_utc = 1700000000
    /\ record.id = <<"a","b","c","1","2","3">>
    /\ record.media_url = <<"h","t","t","p","s",":","/","/","i",".","r","e","d","d",".","i","t","/","p","i","c",".","j","p","g">>
    /\ record.first_comment = <<"str", <<"{","\"","s","o","u","r","c","e","\"",":","\"","x","\"","}">>>>

\* Every record this run has completed: its image is at {id}.{ext} in its day
\* directory, and so is {id}.txt, holding first_comment, when that is not empty
C9_State ==
    \A n \in 1..Len(processed) :
        Completed(n) =>
            /\ processed[n].id = daily_submissions[n].id
            /\ processed[n].image =
                   processed[n].day_dir \o <<"/">> \o daily_submissions[n].id
                       \o <<".">> \o AfterLastDot(daily_submissions[n].media_url)
            /\ processed[n].image \in DOMAIN fs.files
            /\ Commented(daily_submissions[n]) =>
                   /\ TxtPath(processed[n].day_dir, daily_submissions[n]) \in DOMAIN fs.files
                   /\ fs.files[TxtPath(processed[n].day_dir, daily_submissions[n])]
                          = daily_submissions[n].first_comment[2]
            /\ IsScenario(daily_submissions[n]) =>
                   /\ <<"d","a","t","a","/","1","1","_","N","o","v","e","m","b","e","r","/","1","4","/","a","b","c","1","2","3",".","j","p","g">> \in DOMAIN fs.files
                   /\ <<"d","a","t","a","/","1","1","_","N","o","v","e","m","b","e","r","/","1","4","/","a","b","c","1","2","3",".","t","x","t">> \in DOMAIN fs.files
                   /\ fs.files[<<"d","a","t","a","/","1","1","_","N","o","v","e","m","b","e","r","/","1","4","/","a","b","c","1","2","3",".","t","x","t">>] = <<"{","\"","s","o","u","r","c","e","\"",":","\"","x","\"","}">>

\* A step that processes a record whose first_comment is absent or empty leaves
\* {id}.txt as it was, there or not
C9_Step ==
    (Processes /\ ~Commented(Record)) =>
        LET txt == TxtPath(Entry.day_dir, Record)
        IN  /\ txt \in DOMAIN fs'.files <=> txt \in DOMAIN fs.files
            /\ txt \in DOMAIN fs.files => fs'.files[txt] = fs.files[txt]

\* C9: for every record whose processing in main completes, {id}.txt in the
\* record's day directory holds exactly first_comment afterwards when that is
\* not empty, whatever it held before, and the image is at {id}.{ext} beside
\* it; when first_comment is absent or empty no .txt file is written. The
\* record created_utc=1700000000, id=abc123, a .jpg URL, first_comment
\* {"source":"x"} yields data/11_November/14/abc123.jpg and abc123.txt.
C9_CommentPersisted == []C9_State /\ [][C9_Step]_vars

\* C9's case: the scenario's record has been completed by a run that found
\* abc123.txt holding another comment, and a record without a comment has been
\* completed beside a .txt file an earlier run left.
C9_Witness ==
    /\ \E n \in 1..Len(processed) :
           /\ Completed(n)
           /\ IsScenario(daily_submissions[n])
           /\ TxtPath(processed[n].day_dir, daily_submissions[n]) \in DOMAIN before.files
           /\ before.files[TxtPath(processed[n].day_dir, daily_submissions[n])]
                  # daily_submissions[n].first_comment[2]
    /\ \E n \in 1..Len(processed) :
           /\ Completed(n)
           /\ ~Commented(daily_submissions[n])
           /\ TxtPath(processed[n].day_dir, daily_submissions[n]) \in DOMAIN fs.files

\* ---- C10

\* Every network failure of a download is the last thing its run did: the run
\* failed at that record, whose comment file it did not write and whose day
\* directory is there; no later record was processed; the images of the
\* records before it are in place
C10_State ==
    \A n \in 1..Len(processed) :
        processed[n].download = "network_error" =>
            /\ pc = "failed"
            /\ n = Len(processed)
            /\ i = n - 1
            /\ ~processed[n].comment_written
            /\ IsDir(fs, processed[n].day_dir)
            /\ \A m \in 1..(n - 1) : processed[m].image \in DOMAIN fs.files

\* The failing step writes no file and removes nothing; after it nothing is
\* written until another run starts
C10_Step ==
    /\ (Processes /\ Entry.download = "network_error") =>
           /\ fs'.files = fs.files
           /\ fs.dirs \subseteq fs'.dirs
    /\ (pc = "failed" /\ pc' = "failed") =>
           /\ fs' = fs
           /\ processed' = processed
           /\ i' = i

\* C10: a network failure during the image download of a record is not handled
\* in download_image or main: it ends the run at that record, whose comment
\* file this run does not write; no later record is processed; the files and
\* directories made for earlier records, and the failing record's day
\* directory, are left in place.
C10_DownloadFailureEndsRun == []C10_State /\ [][C10_Step]_vars

\* C10's case: the run failed on the network at its second record, which has a
\* comment; the first record's image is on disk, a third record is left, and
\* the failing record's day directory was made by this run and holds no
\* comment file.
C10_Witness ==
    /\ pc = "failed"
    /\ Len(processed) = 2
    /\ Len(daily_submissions) = 3
    /\ processed[2].download = "network_error"
    /\ Commented(daily_submissions[2])
    /\ processed[1].download = "fetched"
    /\ ~IsDir(before, processed[2].day_dir)
    /\ TxtPath(processed[2].day_dir, daily_submissions[2]) \notin DOMAIN fs.files

====
